---- MODULE Spec2Model ----
(***************************************************************************)
(* State-machine model of spotify-backup.  src/src/authentication.rs:       *)
(* authenticate() and everything it calls - the token cache, the           *)
(* classifier, the two token-endpoint calls, the loopback callback server  *)
(* and the conversion of a token response into the cached record.          *)
(* src/src/main.rs: main, which authenticates, fetches the listing page by *)
(* page and prints it.                                                     *)
(***************************************************************************)
EXTENDS Integers, Sequences, FiniteSets, TLC

\* ------------------------------------------------------------------ bounds
\* Width of the machine word the model uses for u64 / i64 seconds.  The
\* source uses 64 bits; the arithmetic is modelled at this width so that the
\* overflow cases can be reached.
WordBits == 11
\* How many seconds the wall clock advances in all.
MaxTicks == 1
\* How many connections the callback server accepts in one wait.
MaxConns == 2
\* How many pages of a listing main fetches in one run.
MaxPages == 2

U64Max == 2^WordBits - 1
\* SystemTime holds signed seconds, so the largest representable instant.
I64Max == 2^(WordBits - 1) - 1

\* ------------------------------------------------------- program constants
\* read_token_state: the safety margin added to the current timestamp.
ExpiryMargin == 300
\* fetch_fresh_access_token: the port of "127.0.0.1:8888".
CallbackPort == 8888
CLIENT_ID == "b6146c081df54ae79e42258a8619f570"
TOKEN_URL == "https://accounts.spotify.com/api/token"
AUTH_URL == "https://accounts.spotify.com/authorize"
SCOPES == "playlist-read-private user-library-read"

\* The wall clock at the start, in seconds since the epoch.
Now0 == 500

\* ------------------------------------------------------------- data model
\* A JSON string field that is absent (or has the wrong type).
Null == "<null>"
\* A JSON number field that is absent (or is not an unsigned integer).
NoNum == 0 - 1

\* struct TokenState
TokenState(a, e, r) == [access_token |-> a, expires_at |-> e, refresh_token |-> r]
NoTokenState == TokenState(Null, 0, Null)

\* struct AccessTokenResponse, as a JSON body: a field may be missing.
AccessTokenResponse(a, e, r) == [access_token |-> a, expires_in |-> e, refresh_token |-> r]
NoBody == AccessTokenResponse(Null, NoNum, Null)

\* enum CurrentTokenState; tag "None" is "not classified yet".
CurrentTokenState(t, r, tok) == [tag |-> t, refresh_token |-> r, token |-> tok]
Unclassified == CurrentTokenState("None", Null, NoTokenState)
Missing == CurrentTokenState("Missing", Null, NoTokenState)
Expired(r) == CurrentTokenState("Expired", r, NoTokenState)
Valid(tok) == CurrentTokenState("Valid", Null, tok)

\* The bytes of token.json.  kind "absent": no file; "garbage": not JSON;
\* "json": an object with the listed fields, "extra" telling whether it has
\* members or layout beyond what serde_json::to_string writes.
FileContent(k, a, e, r, x) ==
    [kind |-> k, access_token |-> a, expires_at |-> e, refresh_token |-> r, extra |-> x]
Absent == FileContent("absent", Null, NoNum, Null, FALSE)
Garbage == FileContent("garbage", Null, NoNum, Null, FALSE)

\* serde_json::to_string(&TokenState): exactly the three fields.
Serialize(tok) ==
    FileContent("json", tok.access_token, tok.expires_at, tok.refresh_token, FALSE)

\* serde_json::from_slice::<TokenState>: succeeds when the bytes are a JSON
\* object with the three fields of the right types; other members are ignored.
ParsesAsTokenState(data) ==
    /\ data.kind = "json"
    /\ data.access_token # Null
    /\ data.refresh_token # Null
    /\ data.expires_at \in 0..U64Max

Deserialize(data) == TokenState(data.access_token, data.expires_at, data.refresh_token)

\* Faulty variant of IsExpired: the boundary is taken as stale.
IsExpired_Inclusive(data, current_timestamp) ==
    data.expires_at <= (current_timestamp + ExpiryMargin)

\* The comparison of read_token_state: the record is stale when it expires
\* less than 300 seconds from now.
IsExpired(data, current_timestamp) ==
    data.expires_at < (current_timestamp + ExpiryMargin)

\* The classification of a parsed record at the given timestamp.
Classify(data, current_timestamp) ==
    IF IsExpired(data, current_timestamp)
    THEN Expired(data.refresh_token)
    ELSE Valid(data)

\* ------------------------------------------------------ token endpoint
\* The form of a token-endpoint POST: keys is the set of parameters present.
TokenRequest(g, r, c, u, v, ks) ==
    [url |-> TOKEN_URL, grant_type |-> g, refresh_token |-> r, code |-> c,
     redirect_uri |-> u, client_id |-> CLIENT_ID, code_verifier |-> v, keys |-> ks]

\* Faulty variant of RefreshParams: the grant type of the other call.
RefreshParams_WrongGrant(refresh_token) ==
    TokenRequest("authorization_code", refresh_token, <<>>, Null, Null,
                 {"grant_type", "refresh_token", "client_id"})

\* fetch_access_token_from_refresh: params of the refresh grant.
RefreshParams(refresh_token) ==
    TokenRequest("refresh_token", refresh_token, <<>>, Null, Null,
                 {"grant_type", "refresh_token", "client_id"})

\* fetch_access_token: params of the authorization-code grant.
CodeParams(c, code_verifier, redirect_url) ==
    TokenRequest("authorization_code", Null, c, redirect_url, code_verifier,
                 {"grant_type", "code", "redirect_uri", "client_id", "code_verifier"})

\* What the token endpoint may answer: no answer at all (transport failure),
\* or a status with a body.
HttpResponse(sent, st, b) == [sent |-> sent, status |-> st, body |-> b]
Statuses == {200, 300, 400, 500}
ExpiresIns == {0, ExpiryMargin + 100, I64Max, U64Max}
Bodies ==
    {AccessTokenResponse("A1", e, "R1") : e \in ExpiresIns}
        \cup {AccessTokenResponse("A1", ExpiryMargin + 100, Null)}
Responses ==
    {HttpResponse(FALSE, 0, NoBody)}
        \cup {HttpResponse(TRUE, st, b) : st \in Statuses, b \in Bodies}

\* reqwest Response::error_for_status: an error for client and server error
\* statuses (400..599), the response itself for every other status.
ErrorForStatus(st) == st >= 400 /\ st <= 599

\* Response::json::<AccessTokenResponse>: the three fields must be present.
DecodesAsResponse(b) ==
    /\ b.access_token # Null
    /\ b.refresh_token # Null
    /\ b.expires_in \in 0..U64Max

\* An outcome of a fallible step: kind "ok" with a token, "err" with the
\* context message (and the status a reqwest status error carries; the body
\* has been dropped with the response), or "panic".
Outcome(k, tok, msg, st) == [kind |-> k, token |-> tok, msg |-> msg, status |-> st]
OkOutcome(tok) == Outcome("ok", tok, "", 0)
ErrOutcome(msg) == Outcome("err", NoTokenState, msg, 0)
PanicOutcome(msg) == Outcome("panic", NoTokenState, msg, 0)

\* impl TryFrom<AccessTokenResponse> for TokenState, run at wall-clock time t.
\* SystemTime + Duration panics when the sum is not representable;
\* duration_since(UNIX_EPOCH) is an error for an instant before the epoch.
TryFromResponse(b, t) ==
    IF t + b.expires_in > I64Max
    THEN PanicOutcome("overflow when adding duration to instant")
    ELSE IF t + b.expires_in < 0
    THEN ErrOutcome("Failed to convert to internal state")
    ELSE OkOutcome(TokenState(b.access_token, t + b.expires_in, b.refresh_token))

\* The chain send / error_for_status / json / try_into shared by
\* fetch_access_token_from_refresh and fetch_access_token.
TokenResponseOutcome(resp, t) ==
    IF ~resp.sent
    THEN ErrOutcome("Failed to send access token request")
    ELSE IF ErrorForStatus(resp.status)
    THEN Outcome("err", NoTokenState,
                 "Got non-200 response when requesting access token", resp.status)
    ELSE IF ~DecodesAsResponse(resp.body)
    THEN ErrOutcome("Failed to deserialize access token response")
    ELSE TryFromResponse(resp.body, t)

\* -------------------------------------------------- interactive path
\* format!("http://{local_addr}/") for the address the listener is bound to.
RedirectUrl(port) == [scheme |-> "http", host |-> "127.0.0.1", port |-> port, path |-> "/"]
NoUrl == RedirectUrl(0)

\* generate_code_challenge: the verifier is drawn at random; the challenge is
\* base64url(SHA-256(verifier)), a fixed injective image of the verifier.
Verifiers == {"V0", "V1"}
S256(code_verifier) ==
    CASE code_verifier = "V0" -> "b64(sha256(V0))"
      [] code_verifier = "V1" -> "b64(sha256(V1))"
      [] OTHER -> Null
PkcePair(v, c) == [code_verifier |-> v, code_challenge |-> c]
NoPkce == PkcePair(Null, Null)
\* Faulty variant of generate_code_challenge: the challenge is the verifier
\* itself, not its hash.
generate_code_challenge_plain(v) == PkcePair(v, v)

generate_code_challenge(v) == PkcePair(v, S256(v))

\* build_spotify_auth_url: the query pairs appended to AUTH_URL.
build_spotify_auth_url(code_challenge, redirect_url) ==
    [base |-> AUTH_URL, response_type |-> "code", client_id |-> CLIENT_ID,
     scope |-> SCOPES, code_challenge_method |-> "S256",
     code_challenge |-> code_challenge, redirect_uri |-> redirect_url]

\* ---------------------------------------------------- callback server
\* A query string is a sequence of atoms: "&" and "=" are the separators,
\* "%3D" is a percent-encoded "=", "%63ode" a percent-encoded spelling of
\* "code", "+" an encoded space; every other atom is literal text.
PercentDecode(a) ==
    CASE a = "%63ode" -> "code"
      [] a = "%3D" -> "="
      [] a = "+" -> " "
      [] OTHER -> a

DecodeAll(s) == [i \in 1..Len(s) |-> PercentDecode(s[i])]

\* Index of the first occurrence of atom a in s, or 0.
RECURSIVE IndexFrom(_, _, _)
IndexFrom(s, a, i) ==
    IF i > Len(s) THEN 0
    ELSE IF s[i] = a THEN i
    ELSE IndexFrom(s, a, i + 1)
IndexOf(s, a) == IndexFrom(s, a, 1)

\* One pair of form_urlencoded::parse: the segment is split at its first "="
\* and both halves are decoded (a segment without "=" has an empty value).
ParsePair(seg) ==
    LET eq == IndexOf(seg, "=")
    IN  IF eq = 0
        THEN [key |-> DecodeAll(seg), value |-> <<>>]
        ELSE [key |-> DecodeAll(SubSeq(seg, 1, eq - 1)),
              value |-> DecodeAll(SubSeq(seg, eq + 1, Len(seg)))]

\* form_urlencoded::parse: the raw query is split at "&", empty segments are
\* skipped, each remaining segment gives one pair, in order.
RECURSIVE form_urlencoded_parse(_)
form_urlencoded_parse(query) ==
    IF Len(query) = 0 THEN <<>>
    ELSE LET amp == IndexOf(query, "&")
             seg == IF amp = 0 THEN query ELSE SubSeq(query, 1, amp - 1)
             rest == IF amp = 0 THEN <<>> ELSE SubSeq(query, amp + 1, Len(query))
         IN  IF Len(seg) = 0
             THEN form_urlencoded_parse(rest)
             ELSE <<ParsePair(seg)>> \o form_urlencoded_parse(rest)

\* .find(|(key, _value)| key == "code"): index of the first pair whose key is
\* "code", or 0 when there is none.
RECURSIVE FindFrom(_, _)
FindFrom(pairs, i) ==
    IF i > Len(pairs) THEN 0
    ELSE IF pairs[i].key = <<"code">> THEN i
    ELSE FindFrom(pairs, i + 1)
FindCode(query) == FindFrom(form_urlencoded_parse(query), 1)

\* An HTTP request as the handler sees it: req.method(), req.uri().path(),
\* req.uri().query() (has_query FALSE is None).
HttpRequest(m, p, hq, q) == [method |-> m, path |-> p, has_query |-> hq, query |-> q]
NoRequest == HttpRequest(Null, Null, FALSE, <<>>)

\* Option<String> of the Mutex `out`.
Some(v) == [some |-> TRUE, v |-> v]
None == [some |-> FALSE, v |-> <<>>]

\* Faulty variant of MatchesRoute: the method is not looked at.
MatchesRoute_AnyMethod(req) == req.path = "/" /\ req.has_query

\* The first let-else of the handler: method, path and query presence.
MatchesRoute(req) == req.method = "GET" /\ req.path = "/" /\ req.has_query

\* Faulty variant of Handler: a request without a code is answered 200 as well.
Handler_OkWithoutCode(req) ==
    IF ~MatchesRoute(req)
    THEN [status |-> 404, body |-> "Invalid request, bad method/path/query params",
          out |-> None]
    ELSE IF FindCode(req.query) = 0
    THEN [status |-> 200,
          body |-> "Successfully authenticated, please return to your terminal",
          out |-> None]
    ELSE [status |-> 200,
          body |-> "Successfully authenticated, please return to your terminal",
          out |-> Some(form_urlencoded_parse(req.query)[FindCode(req.query)].value)]

\* The service_fn closure: the response status and what it stores in `out`.
Handler(req) ==
    IF ~MatchesRoute(req)
    THEN [status |-> 404, body |-> "Invalid request, bad method/path/query params",
          out |-> None]
    ELSE IF FindCode(req.query) = 0
    THEN [status |-> 404, body |-> "Invalid request, missing code query parameter",
          out |-> None]
    ELSE [status |-> 200,
          body |-> "Successfully authenticated, please return to your terminal",
          out |-> Some(form_urlencoded_parse(req.query)[FindCode(req.query)].value)]

\* The requests that may reach the listener.
CallbackRequests ==
    { HttpRequest("GET", "/", TRUE, <<"code", "=", "A">>),
      HttpRequest("GET", "/", TRUE, <<"x", "=", "B", "&", "code", "=", "A", "&", "code", "=", "B">>),
      HttpRequest("GET", "/", TRUE, <<"%63ode", "=", "A", "+", "B">>),
      HttpRequest("GET", "/", TRUE, <<"code">>),
      HttpRequest("GET", "/", TRUE, <<"code", "%3D", "A">>),
      HttpRequest("GET", "/", FALSE, <<>>),
      HttpRequest("GET", "/favicon.ico", FALSE, <<>>),
      HttpRequest("GET", "/favicon.ico", TRUE, <<"code", "=", "A">>),
      HttpRequest("POST", "/", TRUE, <<"code", "=", "X">>) }

\* A connection either carries one request or ends before a whole request
\* was read (the peer closed it, or sent bytes that are not HTTP).
\* io_error: serve_connection ends with Err (a read or write on the stream
\* failed, or the bytes were not HTTP).
Connection(hr, req, e) == [has_req |-> hr, req |-> req, io_error |-> e]
NoConnection == Connection(FALSE, NoRequest, FALSE)
Connections ==
    {Connection(FALSE, NoRequest, e) : e \in BOOLEAN}
        \cup {Connection(TRUE, r, e) : r \in CallbackRequests, e \in BOOLEAN}

\* What the closure does with each request that may arrive.
HandlerOf == [req \in CallbackRequests |-> Handler(req)]

\* ------------------------------------------------------ backup (main.rs)
\* enum Args: the two subcommands; the playlist id is a fixed string.
ArgsSet == {"Playlist", "Liked"}
NoArgs == "none"

\* The first page of either listing.
FirstUrl(a) ==
    IF a = "Playlist"
    THEN "https://api.spotify.com/v1/playlists/{id}/tracks?offset=0&limit=50"
    ELSE "https://api.spotify.com/v1/me/tracks?offset=0&limit=50"

\* Option<String> of a URL: the None of it.
NoUrlStr == [some |-> FALSE, v |-> ""]

\* The links a response may carry in `next`.
NextLinks == {"next-1", "next-2"}

\* GetPlaylistTracksResponseItem and what it holds.
Item(name, album, images, artists, uri) ==
    [track |-> [name |-> name, album |-> [name |-> album, images |-> images],
                artists |-> artists, uri |-> uri]]
ItemLists ==
    { <<>>,
      << Item("n2", "a2", <<>>, <<"x">>, "uri-2"),
         Item("n1", "a1", <<"img-1", "img-2">>, <<"x", "y">>, "uri-1") >> }

\* struct GetPlaylistTracksResponse, and a body that does not decode to it.
GetPlaylistTracksResponse(next, items) == [kind |-> "json", next |-> next, items |-> items]
GarbagePage == [kind |-> "garbage", next |-> NoUrlStr, items |-> <<>>]
DecodesAsPage(b) == b.kind = "json"

\* What the Web API may answer to a page request.
ApiResponses ==
    { HttpResponse(FALSE, 0, GarbagePage),
      HttpResponse(TRUE, 401, GarbagePage),
      HttpResponse(TRUE, 200, GarbagePage) }
    \cup { HttpResponse(TRUE, 200, GetPlaylistTracksResponse(n, is)) :
             n \in {NoUrlStr} \cup {Some(l) : l \in NextLinks}, is \in ItemLists }

\* main, lines 54-68: struct Output built from one item; the art is the first
\* image of the album, or the empty string.
Output(v) ==
    [album |-> [art |-> IF v.track.album.images = <<>> THEN ""
                        ELSE v.track.album.images[1],
                name |-> v.track.album.name],
     name |-> v.track.name,
     artists |-> v.track.artists,
     uri |-> v.track.uri]
MapOutput(items) == [i \in 1..Len(items) |-> Output(items[i])]

\* Result<()> of main.
Exit(st, msg) == [status |-> st, msg |-> msg]
NoExit == Exit("none", "")

\* Faulty variant of PageStep: a page that cannot be fetched ends the loop,
\* and what was collected so far goes on to be printed.
PageStep_BreaksOnError(acc, resp) ==
    IF ~resp.sent \/ ErrorForStatus(resp.status) \/ ~DecodesAsPage(resp.body)
    THEN [ok |-> TRUE, out |-> acc, next |-> NoUrlStr, msg |-> ""]
    ELSE [ok |-> TRUE, out |-> acc \o MapOutput(resp.body.items),
          next |-> resp.body.next, msg |-> ""]

\* main, lines 45-71: one turn of the loop on the response to the page
\* request, with acc the items collected so far.
PageStep(acc, resp) ==
    IF ~resp.sent
    THEN [ok |-> FALSE, out |-> acc, next |-> NoUrlStr, msg |-> "error sending request"]
    ELSE IF ErrorForStatus(resp.status)
    THEN [ok |-> FALSE, out |-> acc, next |-> NoUrlStr, msg |-> "HTTP status error"]
    ELSE IF ~DecodesAsPage(resp.body)
    THEN [ok |-> FALSE, out |-> acc, next |-> NoUrlStr, msg |-> "error decoding response body"]
    ELSE [ok |-> TRUE, out |-> acc \o MapOutput(resp.body.items),
          next |-> resp.body.next, msg |-> ""]

\* ------------------------------------------------------------- state
VARIABLES
    pc,           \* where authenticate() stands
    dataDir,      \* dirs::data_local_dir() is Some on this platform
    cache,        \* the content of token.json
    now,          \* the wall clock, seconds since the epoch
    ticks,        \* how often the clock has advanced
    state,        \* the CurrentTokenState read_token_state returned
    token,        \* the TokenState bound to `access_token` in authenticate
    result,       \* what authenticate() returned
    listener,     \* the port the TcpListener is bound to, 0 when none
    redirect_url, \* the redirect URL of this attempt
    pkce,         \* (code_verifier, code_challenge) of this attempt
    conn,         \* the connection being served
    out,          \* the Mutex<Option<String>> of the connection
    code,         \* the code spawn_http_server_wait_for_callback returned
    cache0,       \* history: the cache when the invocation started
    readAt,       \* history: the clock when read_token_state read it
    readOutcome,  \* history: what tokio::fs::read gave
    saveOutcome,  \* history: what the save of this invocation did
    requests,     \* history: token-endpoint requests of this invocation
    lastResp,     \* history: the last token-endpoint response
    convAt,       \* history: the clock when the response was converted
    binds,        \* history: bind attempts (ports) of this invocation
    browser,      \* history: URLs handed to webbrowser::open
    served,       \* history: requests handled, with the status answered
    accepts,      \* history: connections accepted in this wait
    writes,       \* history: contents written to token.json
    reads,        \* history: reads of token.json in this invocation
    taken,        \* history: how often the loop took `out` in this wait
    slot,         \* history: what was done to the `out` of the latest connection
    stale,        \* history: the record a failed refresh left in the file
    args,         \* main: the subcommand (Args)
    authed,       \* main: the Result that authenticate().await gave main
    next_url,     \* main: Option<String>, the page to fetch next
    output,       \* main: the Vec `out` of reshaped items
    stdout,       \* main: what was printed to standard output
    exit,         \* main: how main returned
    api,          \* history: requests sent to the Web API
    pages         \* history: the responses to them

envVars == <<dataDir, now, ticks>>
procVars == <<state, token, listener, redirect_url, pkce, conn, out, code>>
readHist == <<cache0, readAt, readOutcome>>
auxHist == <<reads, taken, slot, stale>>
histVars == <<readHist, saveOutcome, requests, lastResp, convAt, binds, browser, served,
              accepts, writes, auxHist>>
mainVars == <<args, authed, next_url, output, stdout, exit, api, pages>>
vars == <<pc, cache, result, envVars, procVars, histVars, mainVars>>

\* Result<String> of authenticate(): status "none" while it runs.
Result(st, v, msg, http) == [status |-> st, value |-> v, msg |-> msg, http |-> http]
NoResult == Result("none", Null, "", 0)

\* A clock set before 1970-01-01.
PreEpoch == 0 - 1

\* The cache files the program may find.
InitialCaches ==
    { Absent, Garbage,
      FileContent("json", "A0", Now0 + 1000, Null, FALSE),
      FileContent("json", "A0", Now0 + ExpiryMargin + 1, "R0", TRUE) }
    \cup { FileContent("json", "A0", e, "R0", FALSE) :
             e \in { Now0 - 10, Now0 + ExpiryMargin - 1, Now0 + ExpiryMargin,
                     Now0 + ExpiryMargin + 1, U64Max } }

\* One entry of the history of the `out` of connection c: it was set by the
\* handler, or taken by the loop after serve_connection returned (e: with an
\* error, which line 207 logs).
SlotEvent(c, op, o, e) == [conn |-> c, op |-> op, out |-> o, io_error |-> e]

\* No refresh has failed since the file was last written.
NotStale == [set |-> FALSE, cache |-> Absent]
StaleRecord(data) == [set |-> TRUE, cache |-> data]

Init ==
    /\ pc = "idle"
    /\ dataDir \in BOOLEAN
    /\ cache \in InitialCaches
    /\ now \in {Now0, PreEpoch}
    /\ ticks = 0
    /\ state = Unclassified
    /\ token = NoTokenState
    /\ result = NoResult
    /\ listener = 0
    /\ redirect_url = NoUrl
    /\ pkce = NoPkce
    /\ conn = NoConnection
    /\ out = None
    /\ code = <<>>
    /\ cache0 = cache
    /\ readAt = 0
    /\ readOutcome = "none"
    /\ saveOutcome = "none"
    /\ requests = <<>>
    /\ lastResp = HttpResponse(FALSE, 0, NoBody)
    /\ convAt = 0
    /\ binds = <<>>
    /\ browser = <<>>
    /\ served = <<>>
    /\ accepts = 0
    /\ writes = <<>>
    /\ reads = 0
    /\ taken = 0
    /\ slot = <<>>
    /\ stale = NotStale
    /\ args = NoArgs
    /\ authed = NoResult
    /\ next_url = NoUrlStr
    /\ output = <<>>
    /\ stdout = <<>>
    /\ exit = NoExit
    /\ api = <<>>
    /\ pages = <<>>

\* The places where the code reads the clock next: read_token_state, and the
\* try_into at the end of either token-endpoint call.
ClockReadPoints == {"reading", "refreshing", "exchanging"}

\* The environment: the wall clock advances.  The clock is observed only at
\* the ClockReadPoints, so it is advanced just before them.
Tick ==
    /\ ticks < MaxTicks
    /\ pc \in ClockReadPoints
    /\ now >= 0
    /\ now' = now + 1
    /\ ticks' = ticks + 1
    /\ UNCHANGED <<pc, cache, result, dataDir, procVars, histVars, mainVars>>

\* The program is run: main calls authenticate(), a new invocation starts.
authenticate ==
    /\ pc \in {"idle", "done", "failed", "exited"}
    /\ pc' = "reading"
    /\ result' = NoResult
    /\ state' = Unclassified
    /\ token' = NoTokenState
    /\ listener' = 0
    /\ redirect_url' = NoUrl
    /\ pkce' = NoPkce
    /\ conn' = NoConnection
    /\ out' = None
    /\ code' = <<>>
    /\ cache0' = cache
    /\ readAt' = 0
    /\ readOutcome' = "none"
    /\ saveOutcome' = "none"
    /\ requests' = <<>>
    /\ lastResp' = HttpResponse(FALSE, 0, NoBody)
    /\ convAt' = 0
    /\ binds' = <<>>
    /\ browser' = <<>>
    /\ served' = <<>>
    /\ accepts' = 0
    /\ writes' = <<>>
    /\ reads' = 0
    /\ taken' = 0
    /\ slot' = <<>>
    /\ args' = NoArgs
    /\ authed' = NoResult
    /\ next_url' = NoUrlStr
    /\ output' = <<>>
    /\ stdout' = <<>>
    /\ exit' = NoExit
    /\ api' = <<>>
    /\ pages' = <<>>
    /\ UNCHANGED <<cache, envVars, stale>>

\* What tokio::fs::read may give for the cache file.
ReadOutcomes(data) ==
    IF data.kind = "absent" THEN {"NotFound", "PermissionDenied"}
    ELSE {"Ok", "PermissionDenied"}

\* Faulty variant of ReadTokenState: bytes that do not parse are an error.
ReadTokenState_StrictParse(hasDir, rd, data, t) ==
    IF ~hasDir
    THEN [ok |-> FALSE, state |-> Unclassified,
          msg |-> "Unsupported operating system, no data dir"]
    ELSE IF rd = "NotFound"
    THEN [ok |-> TRUE, state |-> Missing, msg |-> ""]
    ELSE IF rd # "Ok" \/ ~ParsesAsTokenState(data)
    THEN [ok |-> FALSE, state |-> Unclassified, msg |-> "Failed to read token state"]
    ELSE IF t < 0
    THEN [ok |-> FALSE, state |-> Unclassified, msg |-> "the end of days is nigh"]
    ELSE [ok |-> TRUE, state |-> Classify(Deserialize(data), t), msg |-> ""]

\* The CurrentTokenState or the error of read_token_state, given the platform,
\* the outcome of the read, the bytes and the clock.
ReadTokenState(hasDir, rd, data, t) ==
    IF ~hasDir
    THEN [ok |-> FALSE, state |-> Unclassified,
          msg |-> "Unsupported operating system, no data dir"]
    ELSE IF rd = "NotFound"
    THEN [ok |-> TRUE, state |-> Missing, msg |-> ""]
    ELSE IF rd # "Ok"
    THEN [ok |-> FALSE, state |-> Unclassified, msg |-> "Failed to read token state"]
    ELSE IF ~ParsesAsTokenState(data)
    THEN [ok |-> TRUE, state |-> Missing, msg |-> ""]
    ELSE IF t < 0
    THEN [ok |-> FALSE, state |-> Unclassified, msg |-> "the end of days is nigh"]
    ELSE [ok |-> TRUE, state |-> Classify(Deserialize(data), t), msg |-> ""]

\* Faulty variant of read_token_state: a file that does not parse is removed
\* ("invalidating").
read_token_state_invalidating ==
    /\ pc = "reading"
    /\ \E rd \in ReadOutcomes(cache) :
         LET r == ReadTokenState(dataDir, rd, cache, now)
         IN  /\ state' = r.state
             /\ pc' = IF r.ok THEN "classified" ELSE "failed"
             /\ result' = IF r.ok THEN result ELSE Result("err", Null, r.msg, 0)
             /\ readOutcome' = IF dataDir THEN rd ELSE "none"
             /\ cache' = IF dataDir /\ rd = "Ok" /\ ~ParsesAsTokenState(cache)
                         THEN Absent ELSE cache
    /\ readAt' = now
    /\ reads' = IF dataDir THEN reads + 1 ELSE reads
    /\ UNCHANGED <<envVars, token, listener, redirect_url, pkce, conn, out,
                   code, cache0, saveOutcome, requests, lastResp, convAt, binds,
                   browser, served, accepts, writes, taken, slot, stale, mainVars>>

\* read_token_state().await?
read_token_state ==
    /\ pc = "reading"
    /\ \E rd \in ReadOutcomes(cache) :
         LET r == ReadTokenState(dataDir, rd, cache, now)
         IN  /\ state' = r.state
             /\ pc' = IF r.ok THEN "classified" ELSE "failed"
             /\ result' = IF r.ok THEN result ELSE Result("err", Null, r.msg, 0)
             /\ readOutcome' = IF dataDir THEN rd ELSE "none"
    /\ readAt' = now
    /\ reads' = IF dataDir THEN reads + 1 ELSE reads
    /\ UNCHANGED <<cache, envVars, token, listener, redirect_url, pkce, conn, out,
                   code, cache0, saveOutcome, requests, lastResp, convAt, binds,
                   browser, served, accepts, writes, taken, slot, stale, mainVars>>

\* Faulty variant of Branch: a valid token is refreshed all the same.
Branch_RefreshesValid(st) ==
    CASE st.tag = "Expired" -> "refresh"
      [] st.tag = "Valid" -> "refresh"
      [] st.tag = "Missing" -> "fresh"
      [] OTHER -> "none"

\* The arm of the match in authenticate that the classification selects.
Branch(st) ==
    CASE st.tag = "Expired" -> "refresh"
      [] st.tag = "Valid" -> "valid"
      [] st.tag = "Missing" -> "fresh"
      [] OTHER -> "none"

\* Faulty variant of use_valid_token: the cached record is re-stamped with a
\* fresh expiry before it is handed to the save.
use_valid_token_restamped ==
    /\ pc = "classified"
    /\ Branch(state) = "valid"
    /\ token' = [state.token EXCEPT !.expires_at = now + ExpiryMargin]
    /\ pc' = "save"
    /\ UNCHANGED <<cache, result, envVars, state, listener, redirect_url, pkce, conn,
                   out, code, histVars, mainVars>>

\* CurrentTokenState::Valid(token) => token
use_valid_token ==
    /\ pc = "classified"
    /\ Branch(state) = "valid"
    /\ token' = state.token
    /\ pc' = "save"
    /\ UNCHANGED <<cache, result, envVars, state, listener, redirect_url, pkce, conn,
                   out, code, histVars, mainVars>>

\* fetch_access_token_from_refresh, up to send(): the refresh grant is posted.
fetch_access_token_from_refresh ==
    /\ pc = "classified"
    /\ Branch(state) = "refresh"
    /\ requests' = Append(requests, RefreshParams(state.refresh_token))
    /\ pc' = "refreshing"
    /\ UNCHANGED <<cache, result, envVars, procVars, readHist, saveOutcome, lastResp,
                   convAt, binds, browser, served, accepts, writes, auxHist, mainVars>>

\* The rest of a token-endpoint call: the response (or the transport failure)
\* arrives and is turned into a TokenState or an error.
TokenResponse(from) ==
    /\ pc = from
    /\ \E resp \in Responses :
         LET o == TokenResponseOutcome(resp, now)
         IN  /\ lastResp' = resp
             /\ token' = o.token
             /\ pc' = CASE o.kind = "ok" -> "save"
                        [] o.kind = "err" -> "failed"
                        [] OTHER -> "panicked"
             /\ result' = CASE o.kind = "ok" -> result
                            [] o.kind = "err" -> Result("err", Null, o.msg, o.status)
                            [] OTHER -> Result("panic", Null, o.msg, 0)
             /\ stale' = CASE from # "refreshing" -> stale
                           [] o.kind = "err" -> StaleRecord(cache)
                           [] OTHER -> NotStale
    /\ convAt' = now
    /\ UNCHANGED <<cache, envVars, state, listener, redirect_url, pkce, conn, out,
                   code, readHist, saveOutcome, requests, binds, browser, served,
                   accepts, writes, reads, taken, slot, mainVars>>

\* Faulty variant of refresh_response: a refresh that failed falls back to
\* the interactive login.
refresh_response_falls_back ==
    /\ pc = "refreshing"
    /\ \E resp \in Responses :
         LET o == TokenResponseOutcome(resp, now)
         IN  /\ lastResp' = resp
             /\ token' = o.token
             /\ state' = IF o.kind = "err" THEN Missing ELSE state
             /\ pc' = CASE o.kind = "ok" -> "save"
                        [] o.kind = "err" -> "classified"
                        [] OTHER -> "panicked"
             /\ result' = CASE o.kind \in {"ok", "err"} -> result
                            [] OTHER -> Result("panic", Null, o.msg, 0)
             /\ stale' = IF o.kind = "err" THEN StaleRecord(cache) ELSE NotStale
    /\ convAt' = now
    /\ UNCHANGED <<cache, envVars, listener, redirect_url, pkce, conn, out,
                   code, readHist, saveOutcome, requests, binds, browser, served,
                   accepts, writes, reads, taken, slot, mainVars>>

\* Faulty variant of refresh_response: a refresh that failed is sent again.
refresh_response_retry ==
    /\ pc = "refreshing"
    /\ \E resp \in Responses :
         LET o == TokenResponseOutcome(resp, now)
         IN  /\ lastResp' = resp
             /\ token' = o.token
             /\ pc' = CASE o.kind = "ok" -> "save"
                        [] o.kind = "err" /\ Len(requests) < 2 -> "classified"
                        [] o.kind = "err" -> "failed"
                        [] OTHER -> "panicked"
             /\ result' = CASE o.kind = "ok" -> result
                            [] o.kind = "err" /\ Len(requests) < 2 -> result
                            [] o.kind = "err" -> Result("err", Null, o.msg, o.status)
                            [] OTHER -> Result("panic", Null, o.msg, 0)
             /\ stale' = IF o.kind = "err" THEN StaleRecord(cache) ELSE NotStale
    /\ convAt' = now
    /\ UNCHANGED <<cache, envVars, state, listener, redirect_url, pkce, conn, out,
                   code, readHist, saveOutcome, requests, binds, browser, served,
                   accepts, writes, reads, taken, slot, mainVars>>

refresh_response == TokenResponse("refreshing")

\* fetch_fresh_access_token, lines 110-117: bind the fixed port and read the
\* local address; onFail is where a failed bind leaves authenticate().
BindStep(onFail) ==
    /\ pc = "classified"
    /\ Branch(state) = "fresh"
    /\ \E o \in {"ok", "bind_failed", "addr_failed"} :
         /\ binds' = Append(binds, [port |-> CallbackPort, ok |-> o # "bind_failed"])
         /\ listener' = IF o = "ok" THEN CallbackPort ELSE 0
         /\ redirect_url' = IF o = "ok" THEN RedirectUrl(CallbackPort) ELSE NoUrl
         /\ pc' = CASE o = "ok" -> "bound"
                    [] o = "bind_failed" -> onFail
                    [] OTHER -> "failed"
         /\ result' = CASE o = "ok" -> result
                        [] o = "bind_failed" /\ onFail # "failed" -> result
                        [] o = "bind_failed" ->
                             Result("err", Null, "Failed to open TCP listener", 0)
                        [] OTHER ->
                             Result("err", Null, "Failed to read local socket address", 0)
    /\ UNCHANGED <<cache, envVars, state, token, pkce, conn, out, code, readHist,
                   saveOutcome, requests, lastResp, convAt, browser, served, accepts,
                   writes, auxHist, mainVars>>

\* Faulty variant of bind_listener: a failed bind is tried again.
bind_listener_retry == BindStep("classified")

bind_listener == BindStep("failed")

\* fetch_fresh_access_token, lines 119-123: generate the PKCE pair, build the
\* authorization URL and hand it to the browser.
open_browser ==
    /\ pc = "bound"
    /\ \E v \in Verifiers, opened \in BOOLEAN :
         /\ pkce' = generate_code_challenge(v)
         /\ browser' = Append(browser,
                build_spotify_auth_url(generate_code_challenge(v).code_challenge,
                                       redirect_url))
         /\ pc' = IF opened THEN "waiting" ELSE "failed"
         /\ listener' = IF opened THEN listener ELSE 0
         /\ result' = IF opened THEN result
                      ELSE Result("err", Null, "Failed to open browser", 0)
    /\ UNCHANGED <<cache, envVars, state, token, redirect_url, conn, out, code,
                   readHist, saveOutcome, requests, lastResp, convAt, binds, served,
                   accepts, writes, auxHist, mainVars>>

\* spawn_http_server_wait_for_callback, lines 170-175: accept the next
\* connection and give it a fresh empty `out`.
accept_connection ==
    /\ pc = "waiting"
    /\ \/ /\ pc' = "failed"
          /\ result' = Result("err", Null, "Failed to accept TCP connection", 0)
          /\ listener' = 0
          /\ UNCHANGED <<conn, out, accepts, slot>>
       \/ /\ accepts < MaxConns
          /\ \E c \in Connections : conn' = c
          /\ out' = None
          /\ slot' = <<>>
          /\ accepts' = accepts + 1
          /\ pc' = "serving"
          /\ UNCHANGED <<result, listener>>
    /\ UNCHANGED <<cache, envVars, state, token, redirect_url, pkce, code, readHist,
                   saveOutcome, requests, lastResp, convAt, binds, browser, served,
                   writes, reads, taken, stale, mainVars>>

\* Faulty variant of handle_request: the connection is kept alive, so the
\* closure runs again on a further request of the same connection.
handle_request_keep_alive ==
    /\ pc \in {"serving", "responding"}
    /\ conn.has_req
    /\ out' = IF HandlerOf[conn.req].out.some THEN HandlerOf[conn.req].out ELSE out
    /\ served' = Append(served, [req |-> conn.req, status |-> HandlerOf[conn.req].status,
                                 conn |-> accepts])
    /\ slot' = IF HandlerOf[conn.req].out.some
               THEN Append(slot, SlotEvent(accepts, "set", HandlerOf[conn.req].out, FALSE))
               ELSE slot
    /\ pc' = "responding"
    /\ UNCHANGED <<cache, result, envVars, state, token, listener, redirect_url, pkce,
                   conn, code, readHist, saveOutcome, requests, lastResp, convAt,
                   binds, browser, accepts, writes, reads, taken, stale, mainVars>>

\* The service_fn closure runs on the request of the connection.
handle_request ==
    /\ pc = "serving"
    /\ conn.has_req
    /\ out' = HandlerOf[conn.req].out
    /\ served' = Append(served, [req |-> conn.req, status |-> HandlerOf[conn.req].status,
                                 conn |-> accepts])
    /\ slot' = IF HandlerOf[conn.req].out.some
               THEN Append(slot, SlotEvent(accepts, "set", HandlerOf[conn.req].out, FALSE))
               ELSE slot
    /\ pc' = "responding"
    /\ UNCHANGED <<cache, result, envVars, state, token, listener, redirect_url, pkce,
                   conn, code, readHist, saveOutcome, requests, lastResp, convAt,
                   binds, browser, accepts, writes, reads, taken, stale, mainVars>>

\* Faulty variant of serve_done: the wait gives up after a connection that
\* brought no code.
serve_done_give_up ==
    /\ \/ pc = "responding"
       \/ pc = "serving" /\ ~conn.has_req
    /\ IF out.some
       THEN /\ code' = out.v
            /\ listener' = 0
            /\ pc' = "got_code"
            /\ UNCHANGED result
       ELSE /\ pc' = "failed"
            /\ listener' = 0
            /\ result' = Result("err", Null, "Timed out waiting for callback", 0)
            /\ UNCHANGED code
    /\ out' = None
    /\ conn' = NoConnection
    /\ slot' = Append(slot, SlotEvent(accepts, "take", out, conn.io_error))
    /\ taken' = taken + 1
    /\ UNCHANGED <<cache, envVars, state, token, redirect_url, pkce, readHist,
                   saveOutcome, requests, lastResp, convAt, binds, browser, served,
                   accepts, writes, reads, stale, mainVars>>

\* Faulty variant of serve_done: the error of serve_connection is propagated
\* with `?`.
serve_done_propagates ==
    /\ \/ pc = "responding"
       \/ pc = "serving" /\ ~conn.has_req
    /\ IF conn.io_error
       THEN /\ pc' = "failed"
            /\ listener' = 0
            /\ result' = Result("err", Null, "Failed to serve connection", 0)
            /\ UNCHANGED code
       ELSE IF out.some
       THEN /\ code' = out.v
            /\ listener' = 0
            /\ pc' = "got_code"
            /\ UNCHANGED result
       ELSE /\ pc' = "waiting"
            /\ UNCHANGED <<code, listener, result>>
    /\ out' = None
    /\ conn' = NoConnection
    /\ slot' = Append(slot, SlotEvent(accepts, "take", out, conn.io_error))
    /\ taken' = taken + 1
    /\ UNCHANGED <<cache, envVars, state, token, redirect_url, pkce, readHist,
                   saveOutcome, requests, lastResp, convAt, binds, browser, served,
                   accepts, writes, reads, stale, mainVars>>

\* Lines 206-215: serve_connection returns (an Err is only logged), `out` is
\* taken; a captured code ends the wait, otherwise the loop continues.
serve_done ==
    /\ \/ pc = "responding"
       \/ pc = "serving" /\ ~conn.has_req
    /\ IF out.some
       THEN /\ code' = out.v
            /\ listener' = 0
            /\ pc' = "got_code"
       ELSE /\ pc' = "waiting"
            /\ UNCHANGED <<code, listener>>
    /\ out' = None
    /\ conn' = NoConnection
    /\ slot' = Append(slot, SlotEvent(accepts, "take", out, conn.io_error))
    /\ taken' = taken + 1
    /\ UNCHANGED <<cache, result, envVars, state, token, redirect_url, pkce, readHist,
                   saveOutcome, requests, lastResp, convAt, binds, browser, served,
                   accepts, writes, reads, stale, mainVars>>

\* Faulty variant of fetch_access_token: the exchange does not wait for the
\* callback.
fetch_access_token_early ==
    /\ pc \in {"waiting", "got_code"}
    /\ requests' = Append(requests, CodeParams(code, pkce.code_verifier, redirect_url))
    /\ pc' = "exchanging"
    /\ UNCHANGED <<cache, result, envVars, procVars, readHist, saveOutcome, lastResp,
                   convAt, binds, browser, served, accepts, writes, auxHist, mainVars>>

\* fetch_access_token, up to send(): the authorization-code grant is posted.
fetch_access_token ==
    /\ pc = "got_code"
    /\ requests' = Append(requests, CodeParams(code, pkce.code_verifier, redirect_url))
    /\ pc' = "exchanging"
    /\ UNCHANGED <<cache, result, envVars, procVars, readHist, saveOutcome, lastResp,
                   convAt, binds, browser, served, accepts, writes, auxHist, mainVars>>

exchange_response == TokenResponse("exchanging")

\* What create_dir_all and tokio::fs::write may do.
SaveOutcomes == {"ok", "mkdir_failed", "create_failed", "write_failed"}

\* Faulty variant of SaveEffect: a failed save is swallowed.
SaveEffect_Swallowed(o, tok, data) ==
    CASE o = "ok" -> [ok |-> TRUE, cache |-> Serialize(tok), msg |-> ""]
      [] o = "write_failed" -> [ok |-> TRUE, cache |-> Garbage, msg |-> ""]
      [] OTHER -> [ok |-> TRUE, cache |-> data, msg |-> ""]

\* authenticate, lines 39-45: the effect of the save on the file and whether
\* authenticate goes on.  A write that fails after the file was created
\* leaves a truncated file.
SaveEffect(o, tok, data) ==
    CASE o = "ok" -> [ok |-> TRUE, cache |-> Serialize(tok), msg |-> ""]
      [] o = "mkdir_failed" -> [ok |-> FALSE, cache |-> data, msg |-> "create_dir_all failed"]
      [] o = "create_failed" ->
           [ok |-> FALSE, cache |-> data, msg |-> "Failed to write token state"]
      [] OTHER -> [ok |-> FALSE, cache |-> Garbage, msg |-> "Failed to write token state"]

save_token_state ==
    /\ pc = "save"
    /\ \E o \in SaveOutcomes :
         LET e == SaveEffect(o, token, cache)
         IN  /\ cache' = e.cache
             /\ writes' = IF e.cache # cache \/ e.ok THEN Append(writes, e.cache) ELSE writes
             /\ pc' = IF e.ok THEN "saved" ELSE "failed"
             /\ result' = IF e.ok THEN result ELSE Result("err", Null, e.msg, 0)
             /\ saveOutcome' = o
    /\ UNCHANGED <<envVars, procVars, readHist, requests, lastResp, convAt, binds,
                   browser, served, accepts, auxHist, mainVars>>

\* Ok(access_token.access_token)
return_token ==
    /\ pc = "saved"
    /\ result' = Result("ok", token.access_token, "", 0)
    /\ pc' = "done"
    /\ UNCHANGED <<cache, envVars, procVars, histVars, mainVars>>

\* main, lines 23-38: authenticate() has returned to main.  Its Err ends
\* main; with its token main builds the client (the header value may fail to
\* parse, the client may fail to build) and the URL of the first page.  The
\* locals of authenticate() are gone.
start_backup ==
    /\ pc \in {"done", "failed"}
    /\ authed' = result
    /\ \E a \in ArgsSet, built \in BOOLEAN :
         /\ args' = a
         /\ next_url' = IF result.status = "ok" /\ built THEN Some(FirstUrl(a)) ELSE NoUrlStr
         /\ pc' = IF result.status = "ok" /\ built THEN "fetching" ELSE "exited"
         /\ exit' = CASE result.status # "ok" ->
                            Exit("err", "Failed to authenticate with Spotify API")
                       [] ~built -> Exit("err", "failed to build the client")
                       [] OTHER -> NoExit
    /\ result' = NoResult
    /\ state' = Unclassified
    /\ token' = NoTokenState
    /\ listener' = 0
    /\ redirect_url' = NoUrl
    /\ pkce' = NoPkce
    /\ conn' = NoConnection
    /\ out' = None
    /\ code' = <<>>
    /\ cache0' = cache
    /\ readAt' = 0
    /\ readOutcome' = "none"
    /\ saveOutcome' = "none"
    /\ requests' = <<>>
    /\ lastResp' = HttpResponse(FALSE, 0, NoBody)
    /\ convAt' = 0
    /\ binds' = <<>>
    /\ browser' = <<>>
    /\ served' = <<>>
    /\ accepts' = 0
    /\ writes' = <<>>
    /\ reads' = 0
    /\ taken' = 0
    /\ slot' = <<>>
    /\ UNCHANGED <<cache, envVars, stale, output, stdout, api, pages>>

\* main, lines 42-71: one turn of the loop: the page at next_url is requested
\* with the bearer token and its items are appended to `out`.
fetch_page ==
    /\ pc = "fetching"
    /\ next_url.some
    /\ Len(api) < MaxPages
    /\ \E resp \in ApiResponses :
         LET r == PageStep(output, resp)
         IN  /\ pages' = Append(pages, resp)
             /\ output' = r.out
             /\ next_url' = r.next
             /\ pc' = IF r.ok THEN "fetching" ELSE "exited"
             /\ exit' = IF r.ok THEN exit ELSE Exit("err", r.msg)
    /\ api' = Append(api, [url |-> next_url.v, bearer |-> authed.value])
    /\ UNCHANGED <<cache, result, envVars, procVars, histVars, args, authed, stdout>>

\* main, lines 74-76: the loop has ended; the array is printed.
print_output ==
    /\ pc = "fetching"
    /\ ~next_url.some
    /\ stdout' = Append(stdout, output)
    /\ pc' = "exited"
    /\ exit' = Exit("ok", "")
    /\ UNCHANGED <<cache, result, envVars, procVars, histVars, args, authed, next_url,
                   output, api, pages>>

\* The environment, between two runs of the program: token.json is removed
\* or overwritten with something that is no token record.
cache_changed_outside ==
    /\ pc \in {"done", "failed", "exited"}
    /\ \E data \in {Absent, Garbage} :
         /\ data # cache
         /\ cache' = data
         /\ cache0' = data
    /\ pc' = "idle"
    /\ result' = NoResult
    /\ state' = Unclassified
    /\ token' = NoTokenState
    /\ listener' = 0
    /\ redirect_url' = NoUrl
    /\ pkce' = NoPkce
    /\ conn' = NoConnection
    /\ out' = None
    /\ code' = <<>>
    /\ readAt' = 0
    /\ readOutcome' = "none"
    /\ saveOutcome' = "none"
    /\ requests' = <<>>
    /\ lastResp' = HttpResponse(FALSE, 0, NoBody)
    /\ convAt' = 0
    /\ binds' = <<>>
    /\ browser' = <<>>
    /\ served' = <<>>
    /\ accepts' = 0
    /\ writes' = <<>>
    /\ reads' = 0
    /\ taken' = 0
    /\ slot' = <<>>
    /\ stale' = NotStale
    /\ args' = NoArgs
    /\ authed' = NoResult
    /\ next_url' = NoUrlStr
    /\ output' = <<>>
    /\ stdout' = <<>>
    /\ exit' = NoExit
    /\ api' = <<>>
    /\ pages' = <<>>
    /\ UNCHANGED envVars

Next ==
    \/ Tick
    \/ cache_changed_outside
    \/ authenticate
    \/ read_token_state
    \/ use_valid_token
    \/ fetch_access_token_from_refresh
    \/ refresh_response
    \/ bind_listener
    \/ open_browser
    \/ accept_connection
    \/ handle_request
    \/ serve_done
    \/ fetch_access_token
    \/ exchange_response
    \/ save_token_state
    \/ return_token
    \/ start_backup
    \/ fetch_page
    \/ print_output

Spec == Init /\ [][Next]_vars

\* The program on a machine that has no cache file, up to the return of the
\* callback wait: what happens to the code afterwards is of no concern to
\* the wait.  The runtime polls the connection future of line 206 until it
\* completes: a request that has arrived is handled, and a connection that
\* can finish does.  Nothing makes a client connect, so accepting is not
\* fair.
FirstRun == Init /\ dataDir /\ cache = Absent /\ now = Now0
WaitNext ==
    \/ Tick
    \/ authenticate
    \/ read_token_state
    \/ bind_listener
    \/ open_browser
    \/ accept_connection
    \/ handle_request
    \/ serve_done
FairSpec ==
    /\ FirstRun
    /\ [][WaitNext]_vars
    /\ WF_vars(handle_request)
    /\ WF_vars(serve_done)

\* ------------------------------------------------------------ claims
\* The invocation has got past read_token_state (and has not yet been left
\* behind by main going on to the backup).
PastRead == pc \notin {"idle", "reading", "fetching", "exited"}

\* authenticate() has returned an access token.
Returned == result.status = "ok"

\* C1: whenever authenticate() has returned an access token, in whichever
\* branch and whatever the cache held before, the save of this invocation
\* succeeded, exactly one write was made, and the cache file holds a complete
\* record (all three fields) whose access_token is the returned string; a
\* save that failed has made authenticate() fail, with no token returned.
C1_SavedBeforeReturn ==
    /\ Returned =>
         /\ saveOutcome = "ok"
         /\ Len(writes) = 1
         /\ cache = writes[1]
         /\ cache.kind = "json"
         /\ cache.access_token = result.value
         /\ cache.access_token # Null
         /\ cache.refresh_token # Null
         /\ cache.expires_at \in 0..U64Max
    /\ saveOutcome \notin {"none", "ok"} =>
         /\ pc = "failed"
         /\ result.status = "err"

\* C1 witness: a corrupt cache was found, the token was returned and the file
\* now holds the record.
C1_Witness ==
    /\ Returned
    /\ cache0 = Garbage
    /\ cache.kind = "json"
    /\ cache.access_token = result.value

\* The cache held, when it was read, a record that parses and expires no
\* sooner than 300 seconds after the read.
CachedValid ==
    /\ PastRead
    /\ readOutcome = "Ok"
    /\ ParsesAsTokenState(cache0)
    /\ readAt >= 0
    /\ cache0.expires_at >= readAt + ExpiryMargin

\* C2: with a parseable cached record that expires at now + 300 or later,
\* authenticate() sends no token-endpoint request, binds no listener, opens
\* no browser and accepts no connection, and the token it returns is the
\* cached access_token.
C2_ValidUsesCache ==
    CachedValid =>
        /\ requests = <<>>
        /\ binds = <<>>
        /\ browser = <<>>
        /\ accepts = 0
        /\ listener = 0
        /\ Returned => result.value = cache0.access_token

\* C2 witness: the cached record was valid and its token was returned.
C2_Witness ==
    /\ CachedValid
    /\ Returned
    /\ result.value = "A0"

\* The cache held, when it was read, a record that parses and expires sooner
\* than 300 seconds after the read.
CachedExpired ==
    /\ PastRead
    /\ readOutcome = "Ok"
    /\ ParsesAsTokenState(cache0)
    /\ readAt >= 0
    /\ cache0.expires_at < readAt + ExpiryMargin

\* The record that the last token-endpoint response amounts to.
RecordOfResponse ==
    FileContent("json", lastResp.body.access_token, convAt + lastResp.body.expires_in,
                lastResp.body.refresh_token, FALSE)

\* C3: with a stale cached record, authenticate() never binds the listener,
\* opens the browser or accepts a connection; once past the branch it has
\* sent exactly one token-endpoint request, the refresh grant with the cached
\* refresh token, grant_type=refresh_token and the client id; and when it
\* returns a token the cache holds the record of the provider's response, the
\* old access and refresh tokens replaced by the response's.
C3_ExpiredRefreshes ==
    CachedExpired =>
        /\ binds = <<>>
        /\ browser = <<>>
        /\ accepts = 0
        /\ pc # "classified" =>
             /\ Len(requests) = 1
             /\ requests[1].url = TOKEN_URL
             /\ requests[1].keys = {"grant_type", "refresh_token", "client_id"}
             /\ requests[1].grant_type = "refresh_token"
             /\ requests[1].refresh_token = cache0.refresh_token
             /\ requests[1].client_id = CLIENT_ID
        /\ Returned =>
             /\ cache = RecordOfResponse
             /\ result.value = lastResp.body.access_token

\* C3 witness: a stale record was refreshed and both tokens in the file are
\* new.
C3_Witness ==
    /\ CachedExpired
    /\ Returned
    /\ cache.access_token # cache0.access_token
    /\ cache.refresh_token # cache0.refresh_token

\* C4: for a parsed record classified at time now, the result is Expired
\* exactly when expires_at < now + 300 and Valid otherwise; Expired carries
\* only the record's refresh_token, Valid the whole record unchanged.
C4_ClassifierBoundary ==
    (PastRead /\ readOutcome = "Ok" /\ ParsesAsTokenState(cache0) /\ readAt >= 0) =>
        /\ state.tag \in {"Expired", "Valid"}
        /\ state.tag = "Expired" <=> cache0.expires_at < readAt + ExpiryMargin
        /\ state.tag = "Expired" =>
             /\ state.refresh_token = cache0.refresh_token
             /\ state.token = NoTokenState
        /\ state.tag = "Valid" =>
             /\ state.refresh_token = Null
             /\ state.token.access_token = cache0.access_token
             /\ state.token.expires_at = cache0.expires_at
             /\ state.token.refresh_token = cache0.refresh_token

\* C4 witness: a record that expires exactly at now + 300 was classified Valid.
C4_Witness ==
    /\ PastRead
    /\ readOutcome = "Ok"
    /\ ParsesAsTokenState(cache0)
    /\ cache0.expires_at = readAt + ExpiryMargin
    /\ state.tag = "Valid"

\* The cache file was absent or held bytes that are no record.
CacheUnusable ==
    \/ cache0.kind = "absent" /\ readOutcome = "NotFound"
    \/ readOutcome = "Ok" /\ ~ParsesAsTokenState(cache0)

\* C5: when the cache file is absent or does not parse as a record, loading
\* raises no error: the classification is Missing and authenticate() goes on
\* with the interactive path (the listener is bound next, and no refresh
\* grant is ever sent); any other failure of the read makes authenticate()
\* fail with no request sent, no listener bound, no browser opened and the
\* cache neither written nor changed.
C5_LoadDegradesToMissing ==
    (PastRead /\ dataDir) =>
        /\ CacheUnusable =>
             /\ state = Missing
             /\ result.msg # "Failed to read token state"
             /\ pc # "classified" => Len(binds) = 1
             /\ \A i \in 1..Len(requests) : requests[i].grant_type = "authorization_code"
        /\ readOutcome \notin {"NotFound", "Ok"} =>
             /\ pc = "failed"
             /\ result.status = "err"
             /\ result.msg = "Failed to read token state"
             /\ requests = <<>>
             /\ binds = <<>>
             /\ browser = <<>>
             /\ accepts = 0
             /\ writes = <<>>
             /\ cache = cache0

\* C5 witness: an unparsable cache was classified Missing and the interactive
\* path ran to the end.
C5_Witness ==
    /\ cache0 = Garbage
    /\ state = Missing
    /\ Returned
    /\ Len(binds) = 1

\* The acceptance predicate of the callback: GET, path exactly "/", a query
\* whose URL-encoded pairs contain a key code.
HasCodeKey(query) ==
    \E i \in 1..Len(form_urlencoded_parse(query)) :
        form_urlencoded_parse(query)[i].key = <<"code">>
Qualifies(req) ==
    /\ req.method = "GET"
    /\ req.path = "/"
    /\ req.has_query
    /\ HasCodeKey(req.query)

\* The value of the first pair whose key is code.
FirstCodeValue(query) ==
    LET pairs == form_urlencoded_parse(query)
        first == CHOOSE i \in 1..Len(pairs) :
                     /\ pairs[i].key = <<"code">>
                     /\ \A j \in 1..(i - 1) : pairs[j].key # <<"code">>
    IN  pairs[first].value

\* The requests, among those that may arrive, that satisfy the predicate, and
\* the code each of them carries.
QualifyingRequests == {r \in CallbackRequests : Qualifies(r)}
CodeOf == [r \in QualifyingRequests |-> FirstCodeValue(r.query)]

\* spawn_http_server_wait_for_callback has returned a code.
WaitReturned ==
    \/ pc = "got_code"
    \/ state = Missing /\ requests # <<>>

\* C6: the wait returns exactly at the first qualifying request in arrival
\* order, with the value of its first code key: every request served before
\* it did not qualify, no connection is accepted after it, and while no
\* request has qualified the wait neither returns nor fails because of a
\* request (only a failed accept ends it).
C6_FirstQualifyingRequestEndsWait ==
    /\ \A i \in 1..Len(served) :
         served[i].req \in QualifyingRequests =>
             /\ i = Len(served)
             /\ served[i].conn = accepts
             /\ pc \notin {"waiting", "serving"}
    /\ WaitReturned =>
         /\ served # <<>>
         /\ served[Len(served)].req \in QualifyingRequests
         /\ code = CodeOf[served[Len(served)].req]
    /\ (served # <<>> /\ served[Len(served)].req \notin QualifyingRequests) =>
         /\ ~WaitReturned
         /\ pc \in {"responding", "waiting", "serving", "failed"}
         /\ pc = "failed" => result.msg = "Failed to accept TCP connection"

\* C6 witness: a request that does not qualify was served first, the second
\* one qualified and its code was returned.
C6_Witness ==
    /\ WaitReturned
    /\ Len(served) = 2
    /\ served[1].req \notin QualifyingRequests
    /\ code = <<"A">>

\* C7: the handler answers 200 exactly to the requests that satisfy the
\* acceptance predicate and 404 to every other request, and right after the
\* handler ran the code is captured exactly when the answer was 200.
C7_StatusMatchesAcceptance ==
    /\ \A i \in 1..Len(served) :
         served[i].status = IF served[i].req \in QualifyingRequests THEN 200 ELSE 404
    /\ pc = "responding" =>
         /\ out.some <=> served[Len(served)].status = 200
         /\ out.some => out.v = CodeOf[served[Len(served)].req]

\* C7 witness: a percent-encoded code key was answered 200 and captured.
C7_Witness ==
    /\ pc = "responding"
    /\ served[Len(served)].status = 200
    /\ served[Len(served)].req.query[1] = "%63ode"
    /\ out = Some(<<"A", " ", "B">>)

\* C8: a failed bind of port 8888 ends the attempt at once: the one bind
\* attempt on 8888 is the only one, authenticate() has failed, and no browser
\* was opened, no token-endpoint request sent and the cache not written.
C8_BindFailureIsFatal ==
    /\ \A i \in 1..Len(binds) : binds[i].port = 8888
    /\ (\E i \in 1..Len(binds) : ~binds[i].ok) =>
         /\ Len(binds) = 1
         /\ pc = "failed"
         /\ result.status = "err"
         /\ result.msg = "Failed to open TCP listener"
         /\ listener = 0
         /\ browser = <<>>
         /\ accepts = 0
         /\ requests = <<>>
         /\ writes = <<>>
         /\ cache = cache0

\* C8 witness: the bind has failed.
C8_Witness ==
    /\ binds # <<>>
    /\ ~binds[1].ok
    /\ pc = "failed"

\* A token-endpoint response has arrived in this invocation.
ResponseReceived == lastResp.sent

\* C9: every token-endpoint response whose status is not 2xx is a fatal
\* upstream-rejection error carrying the status code; only a 2xx response is
\* decoded, and a 2xx response that does not decode is a fatal
\* malformed-response error.
C9_NonSuccessStatusIsRejected ==
    ResponseReceived =>
        IF lastResp.status \notin 200..299
        THEN /\ pc = "failed"
             /\ result.msg = "Got non-200 response when requesting access token"
             /\ result.http = lastResp.status
        ELSE ~DecodesAsResponse(lastResp.body) =>
             /\ pc = "failed"
             /\ result.msg = "Failed to deserialize access token response"

\* C10: every decoded token response, whatever its expires_in, converted at
\* wall-clock time T gives the record with expires_at = T + expires_in and
\* the response's access_token and refresh_token.
C10_ExpiresAtIsNowPlusLifetime ==
    (/\ ResponseReceived
     /\ lastResp.status \in 200..299
     /\ DecodesAsResponse(lastResp.body)
     /\ convAt >= 0) =>
        /\ result.status # "panic"
        /\ token = TokenState(lastResp.body.access_token,
                              convAt + lastResp.body.expires_in,
                              lastResp.body.refresh_token)

\* The file holds exactly what the program's serializer writes for its record.
Canonical(data) == ParsesAsTokenState(data) /\ data = Serialize(Deserialize(data))

\* C11 as stated: on the Valid branch the cache content after authenticate()
\* is identical to the content before it.
C11_ValidSaveKeepsContent ==
    (CachedValid /\ Returned) => cache = cache0

\* C11, amended: on the Valid branch the save rewrites the file as the
\* serialization of the cached record, so the record (access_token,
\* expires_at, refresh_token) after authenticate() equals the record before
\* it; the content itself is identical to the content before whenever the
\* file held exactly what the serializer writes, which is the case from the
\* first such run on.
C11_ValidSaveKeepsRecord ==
    (CachedValid /\ Returned) =>
        /\ cache = Serialize(Deserialize(cache0))
        /\ Deserialize(cache) = Deserialize(cache0)
        /\ Canonical(cache)
        /\ Canonical(cache0) => cache = cache0

C11_Witness ==
    /\ CachedValid
    /\ Returned
    /\ Canonical(cache0)
    /\ cache = cache0
    /\ writes = <<cache0>>

\* The token-endpoint call of this invocation failed: no response arrived,
\* the endpoint rejected the request, or a 2xx response did not decode.
TokenCallFailed ==
    /\ requests # <<>>
    /\ pc \notin {"refreshing", "exchanging"}
    /\ \/ ~lastResp.sent
       \/ ErrorForStatus(lastResp.status)
       \/ lastResp.status \in 200..299 /\ ~DecodesAsResponse(lastResp.body)

\* The invocation ended with an error and never reached the save.
EndedBeforeSave ==
    /\ pc = "failed"
    /\ result.status = "err"
    /\ saveOutcome = "none"
    /\ writes = <<>>

\* C12: nothing is retried.  One invocation reads the cache at most once,
\* sends at most one token-endpoint request (none on Valid, a refresh grant
\* on Expired, an authorization-code grant on Missing), binds the listener at
\* most once and writes the cache at most once; a failed read, bind, token
\* call or save has ended the invocation with an error, with no later step
\* run; an invocation that stopped in any other way ran no later step either.
C12_NothingRetried ==
    /\ reads <= 1
    /\ Len(requests) <= 1
    /\ Len(binds) <= 1
    /\ Len(writes) <= 1
    /\ PastRead => reads = (IF dataDir THEN 1 ELSE 0)
    /\ state.tag = "Valid" => requests = <<>> /\ binds = <<>>
    /\ state.tag = "Expired" =>
          /\ binds = <<>>
          /\ \A i \in 1..Len(requests) : requests[i].grant_type = "refresh_token"
    /\ state.tag = "Missing" =>
          \A i \in 1..Len(requests) : requests[i].grant_type = "authorization_code"
    /\ (PastRead /\ state = Unclassified) =>
          EndedBeforeSave /\ requests = <<>> /\ binds = <<>>
    /\ (binds # <<>> /\ listener = 0 /\ browser = <<>>) =>
          EndedBeforeSave /\ requests = <<>> /\ accepts = 0
    /\ TokenCallFailed => EndedBeforeSave
    /\ saveOutcome \notin {"none", "ok"} =>
          pc = "failed" /\ result.status = "err" /\ Len(writes) <= 1
    /\ pc \in {"failed", "panicked"} =>
          /\ result.status \in {"err", "panic"}
          /\ saveOutcome # "ok"
          /\ ~ENABLED (\/ read_token_state \/ use_valid_token
                       \/ fetch_access_token_from_refresh \/ refresh_response
                       \/ bind_listener \/ open_browser \/ accept_connection
                       \/ handle_request \/ serve_done \/ fetch_access_token
                       \/ exchange_response \/ save_token_state \/ return_token)

C12_Witness ==
    /\ CachedExpired
    /\ TokenCallFailed
    /\ reads = 1
    /\ Len(requests) = 1
    /\ pc = "failed"

\* The callback wait is running.
InWait == pc \in {"waiting", "serving", "responding"}

\* The last connection served left a code in `out`, which the loop took.
CodeCaptured ==
    /\ served # <<>>
    /\ served[Len(served)].status = 200
    /\ served[Len(served)].conn = accepts
    /\ slot # <<>>
    /\ slot[Len(slot)].op = "take"
    /\ slot[Len(slot)].out.some
    /\ code = slot[Len(slot)].out.v

\* C13: on the Missing branch the steps happen in this order, each only after
\* the one before it succeeded: bind the listener, generate the PKCE pair,
\* launch the browser with the authorization URL, wait for the callback,
\* exchange the code, save the record.  The listener is bound when the
\* browser is launched, and the exchange is sent only after a code was
\* captured.
C13_FreshStepsInOrder ==
    /\ binds # <<>> => state = Missing
    /\ pc = "bound" =>
          /\ listener = CallbackPort
          /\ pkce = NoPkce
          /\ browser = <<>>
    /\ (pkce # NoPkce \/ browser # <<>>) =>
          /\ binds = <<[port |-> CallbackPort, ok |-> TRUE]>>
          /\ redirect_url = RedirectUrl(CallbackPort)
          /\ pkce # NoPkce
          /\ Len(browser) = 1
          /\ browser[1] = build_spotify_auth_url(pkce.code_challenge, redirect_url)
    /\ (InWait \/ accepts > 0) =>
          /\ Len(browser) = 1
          /\ result.msg # "Failed to open browser"
          /\ InWait => listener = CallbackPort /\ requests = <<>>
    /\ (state = Missing /\ requests # <<>>) =>
          /\ accepts > 0
          /\ CodeCaptured
          /\ requests[1].code = code
    /\ (state = Missing /\ (saveOutcome # "none" \/ writes # <<>>)) =>
          /\ Len(requests) = 1
          /\ lastResp.sent
          /\ ~ErrorForStatus(lastResp.status)
          /\ DecodesAsResponse(lastResp.body)
          /\ token.access_token = lastResp.body.access_token

C13_Witness ==
    /\ state = Missing
    /\ Returned
    /\ accepts = MaxConns
    /\ Len(served) = MaxConns
    /\ writes # <<>>

\* The entries of the history of `out` with the given operation.
SlotOps(op) == {i \in 1..Len(slot) : slot[i].op = op}

\* C14: the accept loop is serial.  At most one connection is in service at
\* any time, and the next is accepted only after the current one has been
\* served and its `out` taken; at most one request is handled per
\* connection; `out` is set at most once per connection and taken exactly
\* once by the loop, after the connection was served, giving what was set.
C14_AcceptLoopIsSerial ==
    /\ taken <= accepts
    /\ accepts <= taken + 1
    /\ (accepts = taken + 1) <=> pc \in {"serving", "responding"}
    /\ pc = "waiting" => conn = NoConnection /\ out = None
    /\ \A i \in 1..Len(served) :
          /\ served[i].conn \in 1..accepts
          /\ \A j \in 1..Len(served) : i < j => served[i].conn < served[j].conn
    /\ \A i \in 1..Len(slot) : slot[i].conn = accepts
    /\ Cardinality(SlotOps("set")) <= 1
    /\ Cardinality(SlotOps("take")) = (IF accepts > 0 /\ taken = accepts THEN 1 ELSE 0)
    /\ \A i \in SlotOps("set") :
          /\ served # <<>>
          /\ served[Len(served)].conn = accepts
          /\ served[Len(served)].status = 200
          /\ taken < accepts => out = slot[i].out
    /\ \A i \in SlotOps("take") :
          /\ i = Len(slot)
          /\ slot[i].out = (IF i > 1 THEN slot[1].out ELSE None)
          /\ (served # <<>> /\ served[Len(served)].conn = accepts
                /\ served[Len(served)].status = 200) => i = 2

C14_Witness ==
    /\ pc = "waiting"
    /\ accepts = MaxConns
    /\ taken = MaxConns
    /\ Len(served) = MaxConns
    /\ Len(slot) = 1

\* The wait was entered: the browser launch succeeded.
EnteredWait ==
    /\ state = Missing
    /\ Len(browser) = 1
    /\ result.msg # "Failed to open browser"

\* No request handled in this wait qualified.
NoQualifyingRequestYet ==
    \A i \in 1..Len(served) : served[i].req \notin QualifyingRequests

\* The wait has not returned and has not given up.
StillWaitingOrAcceptFailed ==
    \/ InWait /\ result = NoResult
    \/ /\ pc = "failed"
       /\ result.msg = "Failed to accept TCP connection"
       /\ requests = <<>>

\* A connection carrying the qualifying request q is in service.
QualifyingArrived(q) ==
    /\ pc = "serving"
    /\ conn.has_req
    /\ conn.req = q

\* C15: the callback wait has no timeout.  As long as no qualifying request
\* was handled the wait neither returns nor gives up, however many other
\* requests and connections were served (only a failed accept ends it); and
\* when the runtime serves every accepted connection to completion, a
\* qualifying request that arrives leads to the wait returning that
\* request's code.
C15_WaitEndsOnlyByCode ==
    /\ []((EnteredWait /\ NoQualifyingRequestYet) => StillWaitingOrAcceptFailed)
    /\ \A q \in QualifyingRequests :
          QualifyingArrived(q) ~> (pc = "got_code" /\ code = CodeOf[q])

C15_Witness ==
    /\ pc = "got_code"
    /\ accepts = MaxConns
    /\ Len(served) = MaxConns - 1
    /\ served[Len(served)].req \in QualifyingRequests
    /\ code = CodeOf[served[Len(served)].req]

\* The latest connection has been served, and serving it ended in an error.
ServedWithError ==
    /\ accepts > 0
    /\ taken = accepts
    /\ slot # <<>>
    /\ slot[Len(slot)].op = "take"
    /\ slot[Len(slot)].io_error

AcceptFailed == result.msg = "Failed to accept TCP connection"

\* C16: an error while serving a connection never aborts the wait.  When the
\* handler had captured no code on that connection the loop goes on to the
\* next accept; when it had, the wait returns that code.  A failed accept
\* ends the wait with an error and fails authenticate(), and nothing else
\* ends the wait with an error.
C16_ServeErrorDoesNotAbort ==
    /\ ServedWithError =>
          IF slot[Len(slot)].out.some
          THEN /\ code = slot[Len(slot)].out.v
               /\ pc = "got_code" \/ requests # <<>>
               /\ ~AcceptFailed
          ELSE /\ requests = <<>>
               /\ pc = "waiting" \/ (pc = "failed" /\ AcceptFailed)
    /\ AcceptFailed =>
          /\ pc = "failed"
          /\ result.status = "err"
          /\ listener = 0
          /\ requests = <<>>
          /\ writes = <<>>
    /\ (EnteredWait /\ pc = "failed" /\ requests = <<>>) => AcceptFailed

C16_Witness ==
    /\ ServedWithError
    /\ slot[Len(slot)].out.some
    /\ pc = "got_code"
    /\ accepts = MaxConns

\* The strings of the PKCE pair of this attempt.
PkceStrings == {pkce.code_verifier, pkce.code_challenge}

\* A file content that carries one of the strings of the PKCE pair.
HoldsPkce(data) ==
    /\ data.kind = "json"
    /\ {data.access_token, data.refresh_token} \cap PkceStrings # {}

\* C17: within one interactive attempt the values stay bound together.  One
\* PKCE pair is generated per attempt; the code_challenge of the
\* authorization URL is derived from its verifier, and that verifier is the
\* code_verifier of the code exchange; the redirect_uri of the exchange is
\* the redirect_uri of the authorization URL, which is the address of the
\* bound listener; the code of the exchange is the code the wait captured;
\* and no string of the pair is written to the cache.
C17_AttemptValuesStayBound ==
    /\ Len(browser) <= 1
    /\ (pkce # NoPkce) <=> (Len(browser) = 1)
    /\ browser # <<>> =>
          /\ pkce.code_verifier \in Verifiers
          /\ browser[1].code_challenge = S256(pkce.code_verifier)
          /\ browser[1].code_challenge_method = "S256"
          /\ Len(binds) = 1
          /\ browser[1].redirect_uri = RedirectUrl(binds[1].port)
          /\ ~HoldsPkce(cache)
          /\ \A i \in 1..Len(writes) : ~HoldsPkce(writes[i])
    /\ (state = Missing /\ requests # <<>>) =>
          /\ Len(requests) = 1
          /\ Len(browser) = 1
          /\ requests[1].code_verifier = pkce.code_verifier
          /\ S256(requests[1].code_verifier) = browser[1].code_challenge
          /\ requests[1].redirect_uri = browser[1].redirect_uri
          /\ CodeCaptured
          /\ requests[1].code = slot[Len(slot)].out.v
          /\ requests[1].keys =
                {"grant_type", "code", "redirect_uri", "client_id", "code_verifier"}

C17_Witness ==
    /\ state = Missing
    /\ Len(requests) = 1
    /\ requests[1].code_verifier = "V1"
    /\ browser[1].code_challenge = S256("V1")
    /\ Returned
    /\ writes # <<>>

\* authenticate() has stopped without returning a token.
Stopped == pc \in {"failed", "panicked"}

\* C18: when authenticate() fails at any step before the save (cache read
\* error, bind failure, browser-launch failure, accept failure, transport
\* error, rejected token request, undecodable token response), the cache
\* file is as it was before the invocation: nothing was written, removed or
\* truncated.  More generally the file is untouched as long as the save
\* has not run.
C18_FailureLeavesCacheAlone ==
    /\ (pc # "idle" /\ saveOutcome = "none") =>
          /\ cache = cache0
          /\ writes = <<>>
    /\ (Stopped /\ saveOutcome = "none") =>
          /\ cache = cache0
          /\ result.status \in {"err", "panic"}
    /\ Stopped =>
          \/ saveOutcome = "none"
          \/ saveOutcome \in {"mkdir_failed", "create_failed"} /\ cache = cache0
          \/ saveOutcome = "write_failed"

C18_Witness ==
    /\ pc = "failed"
    /\ CachedExpired
    /\ lastResp.sent
    /\ lastResp.status = 200
    /\ ~DecodesAsResponse(lastResp.body)
    /\ cache = cache0
    /\ cache.kind = "json"

\* C19: the interactive path (listener bind, browser launch) is started only
\* when the classification is Missing.  Across invocations, after a refresh
\* has failed and as long as no later refresh has succeeded and the file was
\* not removed or garbled from outside, the stale record stays in the file
\* as it was, no invocation binds the listener or launches the browser, and
\* every invocation that gets to classify classifies Expired with the same
\* refresh token and sends the refresh again with that token.
C19_FailedRefreshStaysOnRefresh ==
    /\ (binds # <<>> \/ browser # <<>> \/ pkce # NoPkce \/ accepts > 0) =>
          state = Missing
    /\ stale.set =>
          /\ cache = stale.cache
          /\ ParsesAsTokenState(cache)
          /\ binds = <<>>
          /\ browser = <<>>
          /\ writes = <<>>
          /\ (PastRead /\ state # Unclassified) =>
                state = Expired(stale.cache.refresh_token)
          /\ \A i \in 1..Len(requests) :
                requests[i] = RefreshParams(stale.cache.refresh_token)
          /\ (state # Unclassified /\ pc # "classified") => Len(requests) = 1

C19_Witness ==
    /\ stale.set
    /\ pc = "refreshing"
    /\ lastResp = HttpResponse(FALSE, 0, NoBody)
    /\ requests = <<RefreshParams(stale.cache.refresh_token)>>
    /\ ticks = MaxTicks

\* The page request got a response that was accepted and decoded.
PageFetched(resp) ==
    /\ resp.sent
    /\ ~ErrorForStatus(resp.status)
    /\ DecodesAsPage(resp.body)

\* The reshaped items of the first k pages, in fetch order.
RECURSIVE ItemsOfPages(_)
ItemsOfPages(k) ==
    IF k = 0 THEN <<>>
    ELSE ItemsOfPages(k - 1) \o MapOutput(pages[k].body.items)

\* C20: the output of the backup is all-or-nothing.  No API request is sent
\* unless authenticate() has returned a token to main, and every request
\* carries that token; the first request goes to the first page of the
\* listing and each later one to the `next` link of the page before it, which
\* was fetched and decoded; the array is printed once, only after a page
\* without `next` was fetched and every page before it was fetched and
\* decoded, and it holds the items of all pages in fetch order; when
\* authentication or a page fetch failed, nothing is printed and main
\* returns an error.
C20_OutputAllOrNothing ==
    /\ Len(pages) = Len(api)
    /\ api # <<>> =>
          /\ authed.status = "ok"
          /\ authed.value # Null
          /\ args \in ArgsSet
    /\ \A i \in 1..Len(api) :
          /\ api[i].bearer = authed.value
          /\ i = 1 => api[i].url = FirstUrl(args)
          /\ i > 1 =>
                /\ PageFetched(pages[i - 1])
                /\ pages[i - 1].body.next.some
                /\ api[i].url = pages[i - 1].body.next.v
    /\ authed.status \in {"err", "panic"} =>
          /\ api = <<>>
          /\ stdout = <<>>
          /\ exit.status = "err"
    /\ (\E i \in 1..Len(pages) : ~PageFetched(pages[i])) =>
          /\ stdout = <<>>
          /\ exit.status = "err"
          /\ pc = "exited"
    /\ exit.status = "err" => stdout = <<>>
    /\ pc = "fetching" => stdout = <<>> /\ output = ItemsOfPages(Len(pages))
    /\ stdout # <<>> =>
          /\ Len(stdout) = 1
          /\ exit.status = "ok"
          /\ pages # <<>>
          /\ \A i \in 1..Len(pages) : PageFetched(pages[i])
          /\ ~pages[Len(pages)].body.next.some
          /\ stdout[1] = ItemsOfPages(Len(pages))
    /\ exit.status = "ok" => Len(stdout) = 1

C20_Witness ==
    /\ Len(stdout) = 1
    /\ Len(pages) = MaxPages
    /\ Len(stdout[1]) = 2 * MaxPages
    /\ stdout[1][1].album.art = ""
    /\ stdout[1][2].album.art = "img-1"
    /\ api[MaxPages].url \in NextLinks

====
